---- MODULE Spec2Model ----
(***************************************************************************)
(* VortexL2: the tunnel + forward lifecycle orchestrator.                   *)
(*                                                                         *)
(* forward.py (ForwardManager, run_command) and main.py (cmd_apply and the  *)
(* menu handlers) are translated from the source.  config.py (TunnelConfig, *)
(* ConfigManager) and tunnel.py (TunnelManager) are not part of the source  *)
(* tree at hand; the few members the translated code calls are modelled     *)
(* from the written specification and are marked as such where defined.     *)
(*                                                                         *)
(* Every operation is one atomic action (the program is single-threaded and *)
(* synchronous).  An operation is written as an operator that maps a world  *)
(* record to the SET of results it can produce, one per combination of      *)
(* outcomes of the host commands and file writes it performs.  The world    *)
(* carries a log of the calls, host commands and file writes of the         *)
(* operation in progress, in the order the code issues them.                *)
(***************************************************************************)
EXTENDS Integers, Sequences, FiniteSets, TLC

\* ------------------------------------------------------------------ bounds
\* The longest comma-separated list the operator types
MaxTokens == 2

\* ------------------------------------------------------- program constants
PortLimit == 65535
Names == {"tunnel1", "tunnel2"}
StoreOrder == <<"tunnel1", "tunnel2">>
\* The ports the operator forwards, and the one used where two tunnels are stored
Ports == {80, 443}
SharedPorts == {80}
NoIP == ""
IPs == {"10.0.0.2", "10.0.0.3"}
Absent == "absent"
Truncated == "truncated"

VARIABLES
    store,      \* ConfigManager: the names of the stored tunnel configs, in order
    config,     \* TunnelConfig per name: configured, remote_forward_ip, forwarded_ports
    template,   \* host: /etc/systemd/system/vortexl2-forward@.service (its rendered target)
    active,     \* host: ports whose unit vortexl2-forward@<port>.service is active
    tunnels,    \* host: names whose l2tp tunnel exists in the kernel inventory
    op,         \* the operation that has just run and its arguments ("idle": none)
    log,        \* what that operation issued, in order
    ret         \* what that operation returned

vars == <<store, config, template, active, tunnels, op, log, ret>>

\* ------------------------------------------------------------ log and text
Entry(kind, cmd, t, p, ok) == [kind |-> kind, cmd |-> cmd, t |-> t, p |-> p, ok |-> ok]

Logged(w, e) == [w EXCEPT !.log = Append(@, e)]

Call(w, name, t, p) == Logged(w, Entry("call", name, t, p, TRUE))

Msg(text, p, detail) == [text |-> text, p |-> p, detail |-> detail]

NoMsg == Msg("", 0, "")

Res(w, ok, msg) == [w |-> w, ok |-> ok, msg |-> msg]

\* ------------------------------------------------- the config (config.py)
\* TunnelConfig as the translated code reads and writes it.
DefaultConfig == [configured |-> FALSE, remote_forward_ip |-> NoIP, forwarded_ports |-> <<>>]

InSeq(x, s) == \E i \in 1..Len(s) : s[i] = x

Count(x, s) == Cardinality({i \in 1..Len(s) : s[i] = x})

Without(x, s) == SelectSeq(s, LAMBDA y : y /= x)

\* TunnelConfig.add_port: registers the port unless it is registered already.
add_port(w, t, port) ==
    IF InSeq(port, w.config[t].forwarded_ports)
    THEN w
    ELSE [w EXCEPT !.config[t].forwarded_ports = Append(@, port)]

\* TunnelConfig.remove_port: unregisters the port (nothing to do when absent).
remove_port(w, t, port) ==
    [w EXCEPT !.config[t].forwarded_ports = Without(port, @)]

\* --------------------------------------------------- the host (forward.py)
\* run_command's ways to end: the command exits with status 0, exits with
\* another status, runs into the 30 s timeout, or cannot be spawned.
Outcomes == {"exit0", "nonzero", "timeout", "oserror"}

run_command_uncaught(outcome) ==
    [ok     |-> outcome = "exit0",
     out    |-> CASE outcome = "exit0"   -> "stdout"
                  [] outcome = "nonzero" -> "stderr"
                  [] outcome = "timeout" -> "TimeoutExpired"
                  [] OTHER               -> "OSError",
     raised |-> outcome \in {"timeout", "oserror"}]

\* run_command: success exactly for a completed command with exit status 0;
\* the output is the command's own text, or the exception's text.  The except
\* clause turns every exception of subprocess.run into a result: none is raised.
run_command(outcome) ==
    [ok     |-> outcome = "exit0",
     out    |-> CASE outcome = "exit0"   -> "stdout"
                  [] outcome = "nonzero" -> "stderr"
                  [] outcome = "timeout" -> "TimeoutExpired"
                  [] OTHER               -> "OSError",
     raised |-> FALSE]

HostEffect_toggling(w, verb, p, ok) ==
    IF ~ok THEN w
    ELSE CASE verb \in {"enable --now", "restart"} -> [w EXCEPT !.active = @ \cup {p}]
           [] verb = "start" -> [w EXCEPT !.active = IF p \in @ THEN @ \ {p} ELSE @ \cup {p}]
           [] verb = "stop" -> [w EXCEPT !.active = @ \ {p}]
           [] OTHER -> w

\* What a systemctl verb that succeeded does to the unit of a port.
HostEffect(w, verb, p, ok) ==
    IF ~ok THEN w
    ELSE CASE verb \in {"enable --now", "start", "restart"} -> [w EXCEPT !.active = @ \cup {p}]
           [] verb = "stop" -> [w EXCEPT !.active = @ \ {p}]
           [] OTHER -> w

\* A unit vortexl2-forward@<port>.service is an instance of the template file:
\* the host can start one only while the file holds a rendered template.
Startable(w) == w.template \in IPs

\* The ways the host may end a systemctl verb
Endings(w, verb) ==
    IF verb \in {"enable --now", "start", "restart"} /\ ~Startable(w)
    THEN w.outcomes \ {"exit0"}
    ELSE w.outcomes

\* One run_command(f"systemctl <verb> <unit of p>") issued by tunnel t's manager.
Systemctl(w, t, verb, p) ==
    { LET r == run_command(o)
      IN  [w   |-> Logged(HostEffect(w, verb, p, r.ok), Entry("host", verb, t, p, r.ok)),
           ok  |-> r.ok,
           out |-> r.out]
      : o \in Endings(w, verb) }

\* One run_command(cmd) of a command that changes nothing of the host kept here.
Shell(w, cmd, t, p) ==
    { LET r == run_command(o)
      IN  [w      |-> Logged(w, Entry("host", cmd, t, p, r.ok)),
           ok     |-> r.ok,
           out    |-> r.out,
           raised |-> r.raised]
      : o \in w.outcomes }

\* systemctl is-active and systemctl status exit non-zero for a unit that is
\* not active; any query can fail on its own.
Answers(w, verb, p) ==
    IF verb \in {"is-active", "status"} /\ p \notin w.active
    THEN w.outcomes \ {"exit0"}
    ELSE w.outcomes

\* One run_command(f"systemctl <is-active|is-enabled|status> <unit of p>")
Query(w, t, verb, p) ==
    { LET r == run_command(o)
      IN  [w   |-> Logged(w, Entry("host", verb, t, p, r.ok)),
           ok  |-> r.ok,
           out |-> r.out]
      : o \in Answers(w, verb, p) }

\* open(template_path, 'w') followed by f.write(...): the file is written, or
\* open() raises (file untouched), or write() raises after open() truncated it.
WriteOutcomes == {"written", "open_failed", "write_failed"}

WriteTemplate_keeping(w, t, remote_ip, wr) ==
    Logged([w EXCEPT !.template = CASE wr = "written"      -> IF @ = Absent THEN remote_ip ELSE @
                                    [] wr = "write_failed" -> Truncated
                                    [] OTHER               -> @],
           Entry("file", "write_template", t, 0, wr = "written"))

WriteTemplate(w, t, remote_ip, wr) ==
    Logged([w EXCEPT !.template = CASE wr = "written"      -> remote_ip
                                    [] wr = "write_failed" -> Truncated
                                    [] OTHER               -> @],
           Entry("file", "write_template", t, 0, wr = "written"))

\* ------------------------------------------------ ForwardManager (forward.py)
install_template_unguarded(w0, t) ==
    LET w == Call(w0, "install_template", t, 0)
        remote_ip == w.config[t].remote_forward_ip
    IN  UNION {
          IF wr = "written"
          THEN { Res(r.w, TRUE, Msg("Template installed at", 0, ""))
                 : r \in Systemctl(WriteTemplate(w, t, remote_ip, wr), t, "daemon-reload", 0) }
          ELSE { Res(WriteTemplate(w, t, remote_ip, wr), FALSE,
                     Msg("Failed to install template:", 0, wr)) }
          : wr \in WriteOutcomes }

install_template(w0, t) ==
    LET w == Call(w0, "install_template", t, 0)
        remote_ip == w.config[t].remote_forward_ip
    IN  IF remote_ip = NoIP
        THEN {Res(w, FALSE, Msg("Remote forward IP not configured", 0, ""))}
        ELSE UNION {
               IF wr = "written"
               THEN { Res(r.w, TRUE, Msg("Template installed at", 0, ""))
                      : r \in Systemctl(WriteTemplate(w, t, remote_ip, wr), t, "daemon-reload", 0) }
               ELSE { Res(WriteTemplate(w, t, remote_ip, wr), FALSE,
                          Msg("Failed to install template:", 0, wr)) }
               : wr \in WriteOutcomes }

update_template_rolling_back(w0, t, remote_ip) ==
    LET w == Call(w0, "update_template", t, 0)
    IN  { IF r.ok THEN r
          ELSE Res([r.w EXCEPT !.config[t].remote_forward_ip = w0.config[t].remote_forward_ip],
                   r.ok, r.msg)
          : r \in install_template(IF remote_ip /= NoIP
                                    THEN [w EXCEPT !.config[t].remote_forward_ip = remote_ip]
                                    ELSE w, t) }

update_template(w0, t, remote_ip) ==
    LET w == Call(w0, "update_template", t, 0)
    IN  install_template(IF remote_ip /= NoIP
                         THEN [w EXCEPT !.config[t].remote_forward_ip = remote_ip]
                         ELSE w, t)

create_forward_registers_first(w0, t, port) ==
    LET w == Call(w0, "create_forward", t, port)
        ensured == IF w.template = Absent
                   THEN install_template(w, t)
                   ELSE {Res(w, TRUE, NoMsg)}
    IN  UNION {
          IF ~i.ok
          THEN {Res(i.w, FALSE, Msg("Failed to install template:", 0, i.msg.text))}
          ELSE { IF r.ok
                 THEN Res(r.w, TRUE, Msg("Port forward created and started", port, ""))
                 ELSE Res(r.w, FALSE, Msg("Failed to create forward for port", port, r.out))
                 : r \in Systemctl(add_port(i.w, t, port), t, "enable --now", port) }
          : i \in ensured }

create_forward_appends(w0, t, port) ==
    LET w == Call(w0, "create_forward", t, port)
        ensured == IF w.template = Absent
                   THEN install_template(w, t)
                   ELSE {Res(w, TRUE, NoMsg)}
    IN  UNION {
          IF ~i.ok
          THEN {Res(i.w, FALSE, Msg("Failed to install template:", 0, i.msg.text))}
          ELSE { IF r.ok
                 THEN Res([r.w EXCEPT !.config[t].forwarded_ports = Append(@, port)], TRUE,
                          Msg("Port forward created and started", port, ""))
                 ELSE Res(r.w, FALSE, Msg("Failed to create forward for port", port, r.out))
                 : r \in Systemctl(i.w, t, "enable --now", port) }
          : i \in ensured }

create_forward_unregistering(w0, t, port) ==
    LET w == Call(w0, "create_forward", t, port)
        ensured == IF w.template = Absent
                   THEN install_template(w, t)
                   ELSE {Res(w, TRUE, NoMsg)}
    IN  UNION {
          IF ~i.ok
          THEN {Res(remove_port(i.w, t, port), FALSE,
                    Msg("Failed to install template:", 0, i.msg.text))}
          ELSE { IF r.ok
                 THEN Res(add_port(r.w, t, port), TRUE,
                          Msg("Port forward created and started", port, ""))
                 ELSE Res(remove_port(r.w, t, port), FALSE,
                          Msg("Failed to create forward for port", port, r.out))
                 : r \in Systemctl(i.w, t, "enable --now", port) }
          : i \in ensured }

create_forward_always_installing(w0, t, port) ==
    LET w == Call(w0, "create_forward", t, port)
    IN  UNION {
          IF ~i.ok
          THEN {Res(i.w, FALSE, Msg("Failed to install template:", 0, i.msg.text))}
          ELSE { IF r.ok
                 THEN Res(add_port(r.w, t, port), TRUE,
                          Msg("Port forward created and started", port, ""))
                 ELSE Res(r.w, FALSE, Msg("Failed to create forward for port", port, r.out))
                 : r \in Systemctl(i.w, t, "enable --now", port) }
          : i \in install_template(w, t) }

create_forward(w0, t, port) ==
    LET w == Call(w0, "create_forward", t, port)
        ensured == IF w.template = Absent
                   THEN install_template(w, t)
                   ELSE {Res(w, TRUE, NoMsg)}
    IN  UNION {
          IF ~i.ok
          THEN {Res(i.w, FALSE, Msg("Failed to install template:", 0, i.msg.text))}
          ELSE { IF r.ok
                 THEN Res(add_port(r.w, t, port), TRUE,
                          Msg("Port forward created and started", port, ""))
                 ELSE Res(r.w, FALSE, Msg("Failed to create forward for port", port, r.out))
                 : r \in Systemctl(i.w, t, "enable --now", port) }
          : i \in ensured }

remove_forward_stop_gated(w0, t, port) ==
    LET w == Call(w0, "remove_forward", t, port)
    IN  UNION { IF s.ok
                THEN { Res(remove_port(d.w, t, port), TRUE, Msg("Port forward removed", port, ""))
                       : d \in Systemctl(s.w, t, "disable", port) }
                ELSE { Res(remove_port(s.w, t, port), TRUE, Msg("Port forward removed", port, "")) }
                : s \in Systemctl(w, t, "stop", port) }

remove_forward(w0, t, port) ==
    LET w == Call(w0, "remove_forward", t, port)
    IN  UNION { { Res(remove_port(d.w, t, port), TRUE, Msg("Port forward removed", port, ""))
                  : d \in Systemctl(s.w, t, "disable", port) }
                : s \in Systemctl(w, t, "stop", port) }

\* ------------------------------------------- port lists typed by the operator
\* A comma-separated string is the sequence of its pieces between the commas;
\* a piece is a sequence of characters.
Digits == <<"0", "1", "2", "3", "4", "5", "6", "7", "8", "9">>

IsDigit(c) == \E i \in 1..10 : Digits[i] = c

DigitVal(c) == (CHOOSE i \in 1..10 : Digits[i] = c) - 1

RECURSIVE LStrip(_)
LStrip(s) == IF s /= <<>> /\ Head(s) = " " THEN LStrip(Tail(s)) ELSE s

RECURSIVE RStrip(_)
RStrip(s) == IF s /= <<>> /\ s[Len(s)] = " " THEN RStrip(SubSeq(s, 1, Len(s) - 1)) ELSE s

\* str.strip()
strip(s) == RStrip(LStrip(s))

Unsigned(s) == IF s /= <<>> /\ Head(s) \in {"-", "+"} THEN Tail(s) ELSE s

RECURSIVE DigitsValue(_, _)
DigitsValue(s, acc) ==
    IF s = <<>> THEN acc ELSE DigitsValue(Tail(s), 10 * acc + DigitVal(Head(s)))

\* int(s) raises ValueError unless s is an optional sign and decimal digits.
ParsesAsInt(s) ==
    LET u == Unsigned(strip(s))
    IN  u /= <<>> /\ \A i \in 1..Len(u) : IsDigit(u[i])

\* int(s), for a string that parses
int(s) ==
    LET b == strip(s)
        v == DigitsValue(Unsigned(b), 0)
    IN  IF Head(b) = "-" THEN 0 - v ELSE v

RECURSIVE Decimal(_)
Decimal(n) == IF n < 10 THEN <<Digits[n + 1]>> ELSE Decimal(n \div 10) \o <<Digits[(n % 10) + 1]>>

Pieces_unfiltered(raw) == [i \in 1..Len(raw) |-> strip(raw[i])]

\* [p.strip() for p in ports_str.split(',') if p.strip()]
RECURSIVE Pieces(_)
Pieces(raw) ==
    IF raw = <<>> THEN <<>>
    ELSE IF strip(Head(raw)) = <<>> THEN Pieces(Tail(raw))
    ELSE <<strip(Head(raw))>> \o Pieces(Tail(raw))

Line(label, port, tok, msg) == [label |-> label, port |-> port, tok |-> tok, msg |-> msg]

Batch(w, ok, lines) == [w |-> w, ok |-> ok, lines |-> lines]

RECURSIVE add_each_aborting(_, _, _, _)
add_each_aborting(w, t, ports, results) ==
    IF ports = <<>> THEN {Batch(w, TRUE, results)}
    ELSE LET port_str == Head(ports)
         IN  IF ~ParsesAsInt(port_str)
             THEN {Batch(w, TRUE,
                         Append(results, Line("quoted", 0, port_str, Msg("Invalid port number", 0, ""))))}
             ELSE LET port == int(port_str)
                  IN  IF port < 1 \/ port > PortLimit
                      THEN add_each_aborting(w, t, Tail(ports),
                                    Append(results, Line("Port", port, <<>>, Msg("Invalid port number", 0, ""))))
                      ELSE UNION { add_each_aborting(r.w, t, Tail(ports),
                                            Append(results, Line("Port", port, <<>>, r.msg)))
                                   : r \in create_forward(w, t, port) }

RECURSIVE add_each_unchecked(_, _, _, _)
add_each_unchecked(w, t, ports, results) ==
    IF ports = <<>> THEN {Batch(w, TRUE, results)}
    ELSE LET port_str == Head(ports)
         IN  IF ~ParsesAsInt(port_str)
             THEN add_each_unchecked(w, t, Tail(ports),
                           Append(results, Line("quoted", 0, port_str, Msg("Invalid port number", 0, ""))))
             ELSE UNION { add_each_unchecked(r.w, t, Tail(ports),
                                   Append(results, Line("Port", int(port_str), <<>>, r.msg)))
                          : r \in create_forward(w, t, int(port_str)) }

RECURSIVE add_each(_, _, _, _)
add_each(w, t, ports, results) ==
    IF ports = <<>> THEN {Batch(w, TRUE, results)}
    ELSE LET port_str == Head(ports)
         IN  IF ~ParsesAsInt(port_str)
             THEN add_each(w, t, Tail(ports),
                           Append(results, Line("quoted", 0, port_str, Msg("Invalid port number", 0, ""))))
             ELSE LET port == int(port_str)
                  IN  IF port < 1 \/ port > PortLimit
                      THEN add_each(w, t, Tail(ports),
                                    Append(results, Line("Port", port, <<>>, Msg("Invalid port number", 0, ""))))
                      ELSE UNION { add_each(r.w, t, Tail(ports),
                                            Append(results, Line("Port", port, <<>>, r.msg)))
                                   : r \in create_forward(w, t, port) }

add_multiple_forwards(w0, t, ports_str) ==
    add_each(Call(w0, "add_multiple_forwards", t, 0), t, Pieces(ports_str), <<>>)

RECURSIVE remove_each(_, _, _, _)
remove_each(w, t, ports, results) ==
    IF ports = <<>> THEN {Batch(w, TRUE, results)}
    ELSE LET port_str == Head(ports)
         IN  IF ~ParsesAsInt(port_str)
             THEN remove_each(w, t, Tail(ports),
                              Append(results, Line("quoted", 0, port_str, Msg("Invalid port number", 0, ""))))
             ELSE UNION { remove_each(r.w, t, Tail(ports),
                                      Append(results, Line("Port", int(port_str), <<>>, r.msg)))
                          : r \in remove_forward(w, t, int(port_str)) }

remove_multiple_forwards(w0, t, ports_str) ==
    remove_each(Call(w0, "remove_multiple_forwards", t, 0), t, Pieces(ports_str), <<>>)

restart_forward_registering(w0, t, port) ==
    { IF r.ok
      THEN Res(add_port(r.w, t, port), TRUE, Msg("Port forward restarted", port, ""))
      ELSE Res(r.w, FALSE, Msg("Failed to restart port", port, r.out))
      : r \in Systemctl(Call(w0, "restart_forward", t, port), t, "restart", port) }

restart_forward(w0, t, port) ==
    { IF r.ok
      THEN Res(r.w, TRUE, Msg("Port forward restarted", port, ""))
      ELSE Res(r.w, FALSE, Msg("Failed to restart port", port, r.out))
      : r \in Systemctl(Call(w0, "restart_forward", t, port), t, "restart", port) }

NoForwards == <<Line("", 0, <<>>, Msg("No port forwards configured", 0, ""))>>

Report(w, results) == Batch(w, TRUE, IF results = <<>> THEN NoForwards ELSE results)

RECURSIVE restart_each(_, _, _, _)
restart_each(w, t, ports, results) ==
    IF ports = <<>> THEN {Report(w, results)}
    ELSE UNION { restart_each(r.w, t, Tail(ports),
                              Append(results, Line("Port", Head(ports), <<>>, r.msg)))
                 : r \in restart_forward(w, t, Head(ports)) }

restart_all_forwards(w0, t) ==
    LET w == Call(w0, "restart_all_forwards", t, 0)
    IN  restart_each(w, t, w.config[t].forwarded_ports, <<>>)

RECURSIVE stop_each_until_failure(_, _, _, _)
stop_each_until_failure(w, t, ports, results) ==
    IF ports = <<>> THEN {Report(w, results)}
    ELSE UNION { IF r.ok
                 THEN stop_each_until_failure(r.w, t, Tail(ports),
                           Append(results, Line("Port", Head(ports), <<>>, Msg("stopped", 0, ""))))
                 ELSE {Report(r.w, Append(results, Line("Port", Head(ports), <<>>,
                                                        Msg("failed:", 0, r.out))))}
                 : r \in Systemctl(w, t, "stop", Head(ports)) }

RECURSIVE stop_each(_, _, _, _)
stop_each(w, t, ports, results) ==
    IF ports = <<>> THEN {Report(w, results)}
    ELSE UNION { stop_each(r.w, t, Tail(ports),
                           Append(results, Line("Port", Head(ports), <<>>,
                                  IF r.ok THEN Msg("stopped", 0, "") ELSE Msg("failed:", 0, r.out))))
                 : r \in Systemctl(w, t, "stop", Head(ports)) }

stop_all_forwards(w0, t) ==
    LET w == Call(w0, "stop_all_forwards", t, 0)
    IN  stop_each(w, t, w.config[t].forwarded_ports, <<>>)

RECURSIVE start_each(_, _, _, _)
start_each(w, t, ports, results) ==
    IF ports = <<>> THEN {Report(w, results)}
    ELSE UNION { start_each(r.w, t, Tail(ports),
                            Append(results, Line("Port", Head(ports), <<>>,
                                   IF r.ok THEN Msg("started", 0, "") ELSE Msg("failed:", 0, r.out))))
                 : r \in Systemctl(w, t, "start", Head(ports)) }

start_all_forwards(w0, t) ==
    LET w == Call(w0, "start_all_forwards", t, 0)
    IN  start_each(w, t, w.config[t].forwarded_ports, <<>>)

\* One dict of list_forwards
Forward(port, status, enabled, remote_ip) ==
    [port |-> port, status |-> status, enabled |-> enabled, remote |-> <<remote_ip, port>>]

Listing(w, forwards) == [w |-> w, forwards |-> forwards]

RECURSIVE list_each_propagating(_, _, _, _)
list_each_propagating(w, t, ports, forwards) ==
    IF ports = <<>> THEN {Listing(w, forwards)}
    ELSE LET port == Head(ports)
         IN  UNION { IF ~a.ok THEN {Listing(a.w, forwards)}
                     ELSE UNION { list_each_propagating(e.w, t, Tail(ports),
                                       Append(forwards,
                                              Forward(port, a.out,
                                                      IF e.ok THEN e.out ELSE "disabled",
                                                      w.config[t].remote_forward_ip)))
                                  : e \in Query(a.w, t, "is-enabled", port) }
                     : a \in Query(w, t, "is-active", port) }

RECURSIVE list_each(_, _, _, _)
list_each(w, t, ports, forwards) ==
    IF ports = <<>> THEN {Listing(w, forwards)}
    ELSE LET port == Head(ports)
         IN  UNION { UNION { list_each(e.w, t, Tail(ports),
                                       Append(forwards,
                                              Forward(port,
                                                      IF a.ok THEN a.out ELSE "inactive",
                                                      IF e.ok THEN e.out ELSE "disabled",
                                                      w.config[t].remote_forward_ip)))
                             : e \in Query(a.w, t, "is-enabled", port) }
                     : a \in Query(w, t, "is-active", port) }

list_forwards(w0, t) ==
    LET w == Call(w0, "list_forwards", t, 0)
    IN  list_each(w, t, w.config[t].forwarded_ports, <<>>)

get_forward_status(w0, t, port) ==
    { Res(r.w, TRUE, Msg("detail", port, r.out))
      : r \in Query(Call(w0, "get_forward_status", t, port), t, "status", port) }

install_socat(w0, t) ==
    { IF r.ok
      THEN Res(r.w, TRUE, Msg("socat installed successfully", 0, ""))
      ELSE Res(r.w, FALSE, Msg("Failed to install socat:", 0, r.out))
      : r \in Shell(Call(w0, "install_socat", t, 0), "apt-get install -y socat", t, 0) }

\* ----------------------------------- TunnelManager and the config store
\* TunnelConfig.is_configured
is_configured(w, t) == w.config[t].configured

\* ConfigManager.get_all_tunnels / list_tunnels: the stored names, in order.
get_all_tunnels(w) == w.store

\* ConfigManager.delete_tunnel
delete_tunnel(w, t) ==
    [w EXCEPT !.store = Without(t, @), !.config[t] = DefaultConfig]

\* TunnelManager.check_tunnel_exists: the host's tunnel inventory holds t's tunnel.
check_tunnel_exists(w, t) == t \in w.tunnels

\* One administrative command of the tunnel controller.
TunnelCmd(w, t, step) ==
    { [w  |-> Logged(IF ~ok THEN w
                     ELSE CASE step = "tunnel_create" -> [w EXCEPT !.tunnels = @ \cup {t}]
                            [] step = "tunnel_delete" -> [w EXCEPT !.tunnels = @ \ {t}]
                            [] OTHER -> w,
                     Entry("host", step, t, 0, ok)),
       ok |-> ok]
      : ok \in BOOLEAN }

SetupSteps == <<"tunnel_create", "session_create", "interface_up">>

RECURSIVE setup_from_continuing(_, _, _)
setup_from_continuing(w, t, steps) ==
    IF steps = <<>> THEN {Res(w, TRUE, Msg("Tunnel setup complete", 0, ""))}
    ELSE UNION { IF r.ok
                 THEN setup_from_continuing(r.w, t, Tail(steps))
                 ELSE { Res(x.w, FALSE, Msg("failed", 0, Head(steps)))
                        : x \in setup_from_continuing(r.w, t, Tail(steps)) }
                 : r \in TunnelCmd(w, t, Head(steps)) }

\* TunnelManager.full_setup: the steps in order, each issued only if the one
\* before it succeeded; the first failure is the result.
RECURSIVE setup_from(_, _, _)
setup_from(w, t, steps) ==
    IF steps = <<>> THEN {Res(w, TRUE, Msg("Tunnel setup complete", 0, ""))}
    ELSE UNION { IF r.ok
                 THEN setup_from(r.w, t, Tail(steps))
                 ELSE {Res(r.w, FALSE, Msg("failed", 0, Head(steps)))}
                 : r \in TunnelCmd(w, t, Head(steps)) }

\* What a controller call returned to the coordinator
Returned(r, name, t) == Res(Logged(r.w, Entry("return", name, t, 0, r.ok)), r.ok, r.msg)

full_setup(w0, t) ==
    { Returned(r, "full_setup", t) : r \in setup_from(Call(w0, "full_setup", t, 0), t, SetupSteps) }

\* TunnelManager.full_teardown: best effort; reports whether the removal failed.
full_teardown(w0, t) ==
    { Returned([w |-> r.w, ok |-> r.ok,
                msg |-> Msg(IF r.ok THEN "Tunnel removed" ELSE "failed", 0, "tunnel_delete")],
               "full_teardown", t)
      : r \in TunnelCmd(Call(w0, "full_teardown", t, 0), t, "tunnel_delete") }

\* TunnelManager.get_status: probes the host, changes nothing and never fails;
\* a probe that failed degrades its field of the snapshot.
get_status(w0, t) ==
    { [w |-> r.w, exists |-> r.ok /\ check_tunnel_exists(r.w, t)]
      : r \in TunnelCmd(Call(w0, "get_status", t, 0), t, "tunnel_show") }

\* ------------------------------------------------- the coordinator (main.py)
Note(w, text, t) == Logged(w, Entry("print", text, t, 0, TRUE))

Exit(w, code) == [w |-> w, code |-> code]

\* cmd_apply, "Setup forwards if configured"
apply_forwards_unordered(w, t) ==
    IF w.config[t].forwarded_ports /= <<>>
    THEN UNION { {i.w : i \in install_template(f.w, t)} : f \in start_all_forwards(w, t) }
    ELSE {w}

apply_forwards_gated(w, t) ==
    IF w.config[t].forwarded_ports /= <<>>
    THEN UNION { IF i.ok THEN {f.w : f \in start_all_forwards(i.w, t)} ELSE {i.w}
                 : i \in install_template(w, t) }
    ELSE {w}

apply_forwards(w, t) ==
    IF w.config[t].forwarded_ports /= <<>>
    THEN UNION { {f.w : f \in start_all_forwards(i.w, t)} : i \in install_template(w, t) }
    ELSE {w}

\* cmd_apply, the loop's body for a configured tunnel: where it leaves the
\* world, and whether it counted an error
apply_tunnel(w, t) ==
    UNION { IF ~s.ok
            THEN {[w |-> s.w, failed |-> TRUE]}
            ELSE {[w |-> x, failed |-> FALSE] : x \in apply_forwards(s.w, t)}
            : s \in full_setup(w, t) }

exit_status_off_by_one(errors) == IF errors > 1 THEN 1 ELSE 0

\* cmd_apply, "return 1 if errors > 0 else 0"
exit_status(errors) == IF errors > 0 THEN 1 ELSE 0

RECURSIVE apply_each_stopping(_, _, _)
apply_each_stopping(w, tunnel_list, errors) ==
    IF tunnel_list = <<>> THEN {Exit(w, exit_status(errors))}
    ELSE LET t == Head(tunnel_list)
             rest == Tail(tunnel_list)
         IN  IF ~is_configured(w, t)
             THEN {Exit(Note(w, "not fully configured, skipping", t), exit_status(errors + 1))}
             ELSE UNION { apply_each_stopping(r.w, rest, IF r.failed THEN errors + 1 ELSE errors)
                          : r \in apply_tunnel(w, t) }

RECURSIVE apply_each_aborting(_, _, _)
apply_each_aborting(w, tunnel_list, errors) ==
    IF tunnel_list = <<>> THEN {Exit(w, exit_status(errors))}
    ELSE LET t == Head(tunnel_list)
             rest == Tail(tunnel_list)
         IN  IF ~is_configured(w, t)
             THEN apply_each_aborting(Note(w, "not fully configured, skipping", t), rest, errors)
             ELSE UNION { IF r.failed THEN {Exit(r.w, exit_status(errors + 1))}
                          ELSE apply_each_aborting(r.w, rest, errors)
                          : r \in apply_tunnel(w, t) }

RECURSIVE apply_each(_, _, _)
apply_each(w, tunnel_list, errors) ==
    IF tunnel_list = <<>> THEN {Exit(w, exit_status(errors))}
    ELSE LET t == Head(tunnel_list)
             rest == Tail(tunnel_list)
         IN  IF ~is_configured(w, t)
             THEN apply_each(Note(w, "not fully configured, skipping", t), rest, errors)
             ELSE UNION { apply_each(r.w, rest, IF r.failed THEN errors + 1 ELSE errors)
                          : r \in apply_tunnel(w, t) }

cmd_apply(w) ==
    IF get_all_tunnels(w) = <<>>
    THEN {Exit(Note(w, "No tunnels configured, skipping", ""), 0)}
    ELSE apply_each(w, get_all_tunnels(w), 0)

handle_start_tunnel_needing_teardown(w, t, confirm) ==
    IF ~is_configured(w, t) THEN {Res(w, FALSE, Msg("Please configure tunnel first", 0, ""))}
    ELSE IF check_tunnel_exists(w, t) /\ ~confirm THEN {Res(w, FALSE, Msg("declined", 0, ""))}
    ELSE UNION { IF ~d.ok THEN {Res(d.w, FALSE, Msg("Tunnel creation failed", 0, ""))}
                 ELSE { Res(s.w, s.ok, Msg(IF s.ok THEN "Tunnel started successfully"
                                                   ELSE "Tunnel creation failed", 0, ""))
                        : s \in full_setup(d.w, t) }
                 : d \in IF check_tunnel_exists(w, t) THEN full_teardown(w, t)
                                                      ELSE {Res(w, TRUE, NoMsg)} }

\* handle_start_tunnel(current_tunnel), the operator answering `confirm` if asked
handle_start_tunnel(w, t, confirm) ==
    IF ~is_configured(w, t) THEN {Res(w, FALSE, Msg("Please configure tunnel first", 0, ""))}
    ELSE IF check_tunnel_exists(w, t) /\ ~confirm THEN {Res(w, FALSE, Msg("declined", 0, ""))}
    ELSE UNION { { Res(s.w, s.ok, Msg(IF s.ok THEN "Tunnel started successfully"
                                               ELSE "Tunnel creation failed", 0, ""))
                   : s \in full_setup(d.w, t) }
                 : d \in IF check_tunnel_exists(w, t) THEN full_teardown(w, t)
                                                      ELSE {Res(w, TRUE, NoMsg)} }

handle_stop_tunnel_teardown_first(w, t, confirm) ==
    IF ~confirm THEN {Res(w, FALSE, Msg("declined", 0, ""))}
    ELSE UNION { { Res(f.w, d.ok, Msg(IF d.ok THEN "Tunnel stopped successfully"
                                               ELSE "Tunnel stop failed", 0, ""))
                   : f \in IF d.w.config[t].forwarded_ports /= <<>>
                           THEN stop_all_forwards(d.w, t)
                           ELSE {Batch(d.w, TRUE, <<>>)} }
                 : d \in full_teardown(w, t) }

handle_stop_tunnel_gated(w, t, confirm) ==
    IF ~confirm THEN {Res(w, FALSE, Msg("declined", 0, ""))}
    ELSE UNION { IF \E i \in 1..Len(f.lines) : f.lines[i].msg.text = "failed:"
                 THEN {Res(f.w, FALSE, Msg("Tunnel stop failed", 0, ""))}
                 ELSE { Res(d.w, d.ok, Msg(IF d.ok THEN "Tunnel stopped successfully"
                                                   ELSE "Tunnel stop failed", 0, ""))
                        : d \in full_teardown(f.w, t) }
                 : f \in IF w.config[t].forwarded_ports /= <<>>
                         THEN stop_all_forwards(w, t)
                         ELSE {Batch(w, TRUE, <<>>)} }

handle_stop_tunnel_unregistering(w, t, confirm) ==
    IF ~confirm THEN {Res(w, FALSE, Msg("declined", 0, ""))}
    ELSE UNION { { Res([d.w EXCEPT !.config[t].forwarded_ports = <<>>], d.ok,
                       Msg(IF d.ok THEN "Tunnel stopped successfully"
                                   ELSE "Tunnel stop failed", 0, ""))
                   : d \in full_teardown(f.w, t) }
                 : f \in IF w.config[t].forwarded_ports /= <<>>
                         THEN stop_all_forwards(w, t)
                         ELSE {Batch(w, TRUE, <<>>)} }

\* handle_stop_tunnel(current_tunnel)
handle_stop_tunnel(w, t, confirm) ==
    IF ~confirm THEN {Res(w, FALSE, Msg("declined", 0, ""))}
    ELSE UNION { { Res(d.w, d.ok, Msg(IF d.ok THEN "Tunnel stopped successfully"
                                               ELSE "Tunnel stop failed", 0, ""))
                   : d \in full_teardown(f.w, t) }
                 : f \in IF w.config[t].forwarded_ports /= <<>>
                         THEN stop_all_forwards(w, t)
                         ELSE {Batch(w, TRUE, <<>>)} }

NoSelection == ""

handle_delete_tunnel_deleting_first(w, selected, confirm) ==
    IF selected = NoSelection THEN {Res(w, FALSE, Msg("cancelled", 0, ""))}
    ELSE IF ~confirm THEN {Res(w, FALSE, Msg("declined", 0, ""))}
    ELSE { Res(d.w, TRUE, Msg("Tunnel deleted", 0, ""))
           : d \in full_teardown(delete_tunnel(Call(w, "delete_tunnel", selected, 0), selected),
                                  selected) }

\* handle_tunnel_management, choice "4": delete the selected tunnel
handle_delete_tunnel(w, selected, confirm) ==
    IF selected = NoSelection THEN {Res(w, FALSE, Msg("cancelled", 0, ""))}
    ELSE IF ~confirm THEN {Res(w, FALSE, Msg("declined", 0, ""))}
    ELSE { Res(delete_tunnel(Call(d.w, "delete_tunnel", selected, 0), selected), TRUE,
               Msg("Tunnel deleted", 0, ""))
           : d \in full_teardown(w, selected) }

\* handle_forwards_menu(current_tunnel), one turn of its loop: the operator's
\* choice and, for "1" and "2", the port list typed at the prompt.
EmptyInput == <<<<>>>>

handle_forwards_menu(w, t, choice, ports) ==
    CASE choice = "1" -> IF ports /= EmptyInput THEN add_multiple_forwards(w, t, ports)
                                                ELSE {Batch(w, TRUE, <<>>)}
      [] choice = "2" -> IF ports /= EmptyInput THEN remove_multiple_forwards(w, t, ports)
                                                ELSE {Batch(w, TRUE, <<>>)}
      [] choice = "4" -> restart_all_forwards(w, t)
      [] choice = "5" -> stop_all_forwards(w, t)
      [] choice = "6" -> start_all_forwards(w, t)
      [] OTHER -> {Batch(w, TRUE, <<>>)}

\* handle_status(current_tunnel)
handle_status(w, t) ==
    UNION { IF s.w.config[t].forwarded_ports /= <<>>
            THEN {Batch(l.w, TRUE, l.forwards) : l \in list_forwards(s.w, t)}
            ELSE {Batch(s.w, TRUE, <<>>)}
            : s \in get_status(w, t) }

\* ui.prompt_tunnel_config(config), as far as the modelled fields go: whether a
\* local and a remote address were given, the remote forward target typed, and
\* whether the four identifiers typed are all non-zero.
prompt_tunnel_config(w, t, local_ip, remote_ip, remote_forward, ids) ==
    IF ~local_ip THEN Res(w, FALSE, Msg("Local IP is required", 0, ""))
    ELSE IF ~remote_ip THEN Res(w, FALSE, Msg("Remote IP is required", 0, ""))
    ELSE Res([w EXCEPT !.config[t].remote_forward_ip = remote_forward,
                       !.config[t].configured = ids],
             TRUE, Msg("Configuration saved!", 0, ""))

\* handle_configure(current_tunnel)
handle_configure(w, t, local_ip, remote_ip, remote_forward, ids) ==
    IF t = NoSelection THEN {Res(w, FALSE, Msg("No tunnel selected", 0, ""))}
    ELSE {prompt_tunnel_config(w, t, local_ip, remote_ip, remote_forward, ids)}

\* ---------------------------------------------------------------- the state
Op(name, t, p) ==
    [name |-> name, t |-> t, p |-> p, ports_str |-> <<>>, ip |-> NoIP, confirm |-> FALSE, arg |-> ""]

Idle == Op("idle", "", 0)

Ret(ok, msg, lines, code) == [ok |-> ok, msg |-> msg, lines |-> lines, code |-> code]

NoRet == Ret(TRUE, NoMsg, <<>>, 0)

\* The state as an operation finds it; outs: the ways a host command may end.
World(outs) ==
    [store |-> store, config |-> config, template |-> template, active |-> active,
     tunnels |-> tunnels, log |-> <<>>, outcomes |-> outs]

\* The operation o has run to the world w and returned r.
Done(w, o, r) ==
    /\ store' = w.store
    /\ config' = w.config
    /\ template' = w.template
    /\ active' = w.active
    /\ tunnels' = w.tunnels
    /\ log' = w.log
    /\ op' = o
    /\ ret' = r

SeqToSet(s) == {s[i] : i \in 1..Len(s)}

\* The lists without repetition over a set of ports
RECURSIVE PortLists(_)
PortLists(P) ==
    {<<>>} \cup UNION { {<<p>> \o l : l \in PortLists(P \ {p})} : p \in P }

Configs(ips, P) ==
    [configured : BOOLEAN, remote_forward_ip : ips, forwarded_ports : PortLists(P)]

Templates == {Absent, Truncated} \cup IPs

\* What the operator may type between two commas
Tokens ==
    {Decimal(p) : p \in Ports}
      \cup {<<"0">>, <<"-", "1">>, Decimal(PortLimit + 1), <<"a", "b", "c">>, <<" ">>}

PortInputs(n) == UNION {[1..k -> Tokens] : k \in 1..n}

\* In a flow only success and failure of a command tell its outcomes apart.
FlowOutcomes == {"exit0", "nonzero"}

\* ------------------------------------------- ForwardManager, called directly
InstallTemplate(t) ==
    /\ op = Idle
    /\ \E r \in install_template(World(Outcomes), t) :
         Done(r.w, Op("install_template", t, 0), Ret(r.ok, r.msg, <<>>, 0))

UpdateTemplate(t) ==
    /\ op = Idle
    /\ \E ip \in IPs \cup {NoIP} : \E r \in update_template(World(Outcomes), t, ip) :
         Done(r.w, [Op("update_template", t, 0) EXCEPT !.ip = ip], Ret(r.ok, r.msg, <<>>, 0))

CreateForward(t) ==
    /\ op = Idle
    /\ \E p \in Ports : \E r \in create_forward(World(Outcomes), t, p) :
         Done(r.w, Op("create_forward", t, p), Ret(r.ok, r.msg, <<>>, 0))

RemoveForward(t) ==
    /\ op = Idle
    /\ \E p \in Ports : \E r \in remove_forward(World(FlowOutcomes), t, p) :
         Done(r.w, Op("remove_forward", t, p), Ret(r.ok, r.msg, <<>>, 0))

AddMultipleForwards(t) ==
    /\ op = Idle
    /\ \E s \in PortInputs(MaxTokens) : \E r \in add_multiple_forwards(World(FlowOutcomes), t, s) :
         Done(r.w, [Op("add_multiple_forwards", t, 0) EXCEPT !.ports_str = s],
              Ret(r.ok, NoMsg, r.lines, 0))

RemoveMultipleForwards(t) ==
    /\ op = Idle
    /\ \E s \in PortInputs(MaxTokens) : \E r \in remove_multiple_forwards(World(FlowOutcomes), t, s) :
         Done(r.w, [Op("remove_multiple_forwards", t, 0) EXCEPT !.ports_str = s],
              Ret(r.ok, NoMsg, r.lines, 0))

RestartForward(t) ==
    /\ op = Idle
    /\ \E p \in Ports : \E r \in restart_forward(World(Outcomes), t, p) :
         Done(r.w, Op("restart_forward", t, p), Ret(r.ok, r.msg, <<>>, 0))

RestartAllForwards(t) ==
    /\ op = Idle
    /\ \E r \in restart_all_forwards(World(FlowOutcomes), t) :
         Done(r.w, Op("restart_all_forwards", t, 0), Ret(r.ok, NoMsg, r.lines, 0))

StopAllForwards(t) ==
    /\ op = Idle
    /\ \E r \in stop_all_forwards(World(FlowOutcomes), t) :
         Done(r.w, Op("stop_all_forwards", t, 0), Ret(r.ok, NoMsg, r.lines, 0))

StartAllForwards(t) ==
    /\ op = Idle
    /\ \E r \in start_all_forwards(World(FlowOutcomes), t) :
         Done(r.w, Op("start_all_forwards", t, 0), Ret(r.ok, NoMsg, r.lines, 0))

ListForwards(t) ==
    /\ op = Idle
    /\ \E r \in list_forwards(World(FlowOutcomes), t) :
         Done(r.w, Op("list_forwards", t, 0), Ret(TRUE, NoMsg, r.forwards, 0))

GetForwardStatus(t) ==
    /\ op = Idle
    /\ \E p \in Ports : \E r \in get_forward_status(World(Outcomes), t, p) :
         Done(r.w, Op("get_forward_status", t, p), Ret(r.ok, r.msg, <<>>, 0))

InstallSocat(t) ==
    /\ op = Idle
    /\ \E r \in install_socat(World(Outcomes), t) :
         Done(r.w, Op("install_socat", t, 0), Ret(r.ok, r.msg, <<>>, 0))

\* run_command on its own, the command ending in the way o
RunCommand ==
    /\ op = Idle
    /\ \E o \in Outcomes : \E r \in Shell(World({o}), "cmd", "", 0) :
         Done(r.w, [Op("run_command", "", 0) EXCEPT !.arg = o],
              Ret(r.ok, Msg(r.out, 0, IF r.raised THEN "raised" ELSE ""), <<>>, 0))

\* The caller has the result; the next operation starts from a clean slate.
Return ==
    /\ op /= Idle
    /\ op' = Idle
    /\ log' = <<>>
    /\ ret' = NoRet
    /\ UNCHANGED <<store, config, template, active, tunnels>>

\* One tunnel config in any state the store can hold, on any host.
InitFwd ==
    /\ store = <<"tunnel1">>
    /\ \E c \in Configs(IPs \cup {NoIP}, Ports) :
         /\ c.configured
         /\ config = [n \in Names |-> IF n = "tunnel1" THEN c ELSE DefaultConfig]
    /\ template \in Templates
    /\ active \in SUBSET Ports
    /\ tunnels = {}
    /\ op = Idle
    /\ log = <<>>
    /\ ret = NoRet

NextFwd ==
    \/ InstallTemplate("tunnel1")
    \/ UpdateTemplate("tunnel1")
    \/ CreateForward("tunnel1")
    \/ RemoveForward("tunnel1")
    \/ RestartForward("tunnel1")
    \/ RestartAllForwards("tunnel1")
    \/ StopAllForwards("tunnel1")
    \/ StartAllForwards("tunnel1")
    \/ ListForwards("tunnel1")
    \/ GetForwardStatus("tunnel1")
    \/ InstallSocat("tunnel1")
    \/ RunCommand
    \/ Return

SpecFwd == InitFwd /\ [][NextFwd]_vars

\* The same config and host, under the batch operations on typed port lists
NextBatch ==
    \/ AddMultipleForwards("tunnel1")
    \/ RemoveMultipleForwards("tunnel1")
    \/ Return

SpecBatch == InitFwd /\ [][NextBatch]_vars

\* ------------------------------------------------ the coordinator's flows
\* The port lists typed in the forwards menu, over the ports P
MenuInputs(P) == {<<Decimal(p)>> : p \in P} \cup {<<<<"a", "b", "c">>>>, EmptyInput}

Apply ==
    /\ op = Idle
    /\ \E r \in cmd_apply(World(FlowOutcomes)) :
         Done(r.w, Op("cmd_apply", "", 0), Ret(r.code = 0, NoMsg, <<>>, r.code))

\* cmd_apply run once more, straight after a run of it (the log goes on)
ApplyAgain ==
    /\ op.name = "cmd_apply"
    /\ \E r \in cmd_apply([World(FlowOutcomes) EXCEPT !.log = log]) :
         Done(r.w, Op("cmd_apply_again", "", 0), Ret(r.code = 0, NoMsg, <<>>, r.code))

StartTunnel ==
    /\ op = Idle
    /\ \E t \in SeqToSet(store), confirm \in BOOLEAN :
         \E r \in handle_start_tunnel(World(FlowOutcomes), t, confirm) :
           Done(r.w, [Op("handle_start_tunnel", t, 0) EXCEPT !.confirm = confirm],
                Ret(r.ok, r.msg, <<>>, 0))

StopTunnel ==
    /\ op = Idle
    /\ \E t \in SeqToSet(store), confirm \in BOOLEAN :
         \E r \in handle_stop_tunnel(World(FlowOutcomes), t, confirm) :
           Done(r.w, [Op("handle_stop_tunnel", t, 0) EXCEPT !.confirm = confirm],
                Ret(r.ok, r.msg, <<>>, 0))

DeleteTunnel ==
    /\ op = Idle
    /\ \E t \in SeqToSet(store) \cup {NoSelection}, confirm \in BOOLEAN :
         \E r \in handle_delete_tunnel(World(FlowOutcomes), t, confirm) :
           Done(r.w, [Op("handle_delete_tunnel", t, 0) EXCEPT !.confirm = confirm],
                Ret(r.ok, r.msg, <<>>, 0))

ForwardsMenu(P) ==
    /\ op = Idle
    /\ \E t \in SeqToSet(store), choice \in {"1", "2", "4", "5", "6"} :
         \E s \in IF choice \in {"1", "2"} THEN MenuInputs(P) ELSE {EmptyInput} :
           \E r \in handle_forwards_menu(World(FlowOutcomes), t, choice, s) :
             Done(r.w, [Op("handle_forwards_menu", t, 0) EXCEPT !.ports_str = s, !.arg = choice],
                  Ret(r.ok, NoMsg, r.lines, 0))

\* Two stored tunnels, each with a target of its own where it has one, on a
\* freshly booted host: nothing set up, nothing running.
Init ==
    /\ store = StoreOrder
    /\ \E c1 \in Configs({NoIP, "10.0.0.2"}, SharedPorts), c2 \in Configs({NoIP, "10.0.0.3"}, SharedPorts) :
         config = [n \in Names |-> IF n = StoreOrder[1] THEN c1 ELSE c2]
    /\ template = Absent
    /\ active = {}
    /\ tunnels = {}
    /\ op = Idle
    /\ log = <<>>
    /\ ret = NoRet

Next ==
    \/ Apply
    \/ ApplyAgain
    \/ StartTunnel
    \/ StopTunnel
    \/ DeleteTunnel
    \/ ForwardsMenu(SharedPorts)
    \/ Return

Spec == Init /\ [][Next]_vars

\* cmd_apply run straight after the stop flow of a tunnel (the log goes on)
ApplyAfterStop ==
    /\ op.name = "handle_stop_tunnel"
    /\ \E r \in cmd_apply([World(FlowOutcomes) EXCEPT !.log = log]) :
         Done(r.w, [Op("cmd_apply_after_stop", op.t, 0) EXCEPT !.confirm = op.confirm],
              Ret(r.code = 0, NoMsg, <<>>, r.code))

\* One stored tunnel with several forwarded ports, on a freshly booted host.
InitTunnel ==
    /\ store = <<"tunnel1">>
    /\ \E c \in Configs({NoIP, "10.0.0.2"}, Ports) :
         config = [n \in Names |-> IF n = "tunnel1" THEN c ELSE DefaultConfig]
    /\ template = Absent
    /\ active = {}
    /\ tunnels = {}
    /\ op = Idle
    /\ log = <<>>
    /\ ret = NoRet

NextTunnel ==
    \/ Apply
    \/ ApplyAfterStop
    \/ StartTunnel
    \/ StopTunnel
    \/ DeleteTunnel
    \/ ForwardsMenu(Ports)
    \/ Return

SpecTunnel == InitTunnel /\ [][NextTunnel]_vars

\* TunnelManager.full_setup, called on its own
FullSetup ==
    /\ op = Idle
    /\ \E t \in SeqToSet(store) : \E r \in full_setup(World(FlowOutcomes), t) :
         Done(r.w, Op("full_setup", t, 0), Ret(r.ok, r.msg, <<>>, 0))

Status ==
    /\ op = Idle
    /\ \E t \in SeqToSet(store) : \E r \in handle_status(World(FlowOutcomes), t) :
         Done(r.w, Op("handle_status", t, 0), Ret(r.ok, NoMsg, r.lines, 0))

\* The operator can leave an address empty only where the config has none yet.
Configure ==
    /\ op = Idle
    /\ \E t \in SeqToSet(store) :
         \E local_ip, remote_ip \in (IF config[t].configured THEN {TRUE} ELSE BOOLEAN) :
           \E remote_forward \in IPs \cup {config[t].remote_forward_ip}, ids \in BOOLEAN :
             \E r \in handle_configure(World(FlowOutcomes), t, local_ip, remote_ip, remote_forward, ids) :
               Done(r.w, [Op("handle_configure", t, 0) EXCEPT !.ip = remote_forward],
                    Ret(r.ok, r.msg, <<>>, 0))

\* One stored tunnel under every operation: the controller's methods and the
\* coordinator's flows.
NextAll ==
    \/ InstallTemplate("tunnel1")
    \/ UpdateTemplate("tunnel1")
    \/ CreateForward("tunnel1")
    \/ RemoveForward("tunnel1")
    \/ RestartForward("tunnel1")
    \/ RestartAllForwards("tunnel1")
    \/ StopAllForwards("tunnel1")
    \/ StartAllForwards("tunnel1")
    \/ ListForwards("tunnel1")
    \/ GetForwardStatus("tunnel1")
    \/ Apply
    \/ StartTunnel
    \/ StopTunnel
    \/ DeleteTunnel
    \/ ForwardsMenu(Ports)
    \/ Status
    \/ Configure
    \/ FullSetup
    \/ Return

SpecAll == InitTunnel /\ [][NextAll]_vars

\* ============================================================== the claims
IsCall(e, name, t) == e.kind = "call" /\ e.cmd = name /\ e.t = t

IsHost(e, verb, t) == e.kind = "host" /\ e.cmd = verb /\ e.t = t

TunnelCmds == {"full_setup", "full_teardown", "tunnel_delete"} \cup SeqToSet(SetupSteps)

\* A call, host command or file write of the forward controller
IsForward(e) == e.kind /= "print" /\ e.cmd \notin TunnelCmds

IsReturn(e, name, t) == e.kind = "return" /\ e.cmd = name /\ e.t = t

\* full_setup of t returned failure / success among the first n entries of the log
SetupFailed(t, n) == \E i \in 1..n : IsReturn(log[i], "full_setup", t) /\ ~log[i].ok

SetupSucceeded(t, n) == \E i \in 1..n : IsReturn(log[i], "full_setup", t) /\ log[i].ok

Applied == op.name = "cmd_apply"

\* C1: cmd_apply returns 1 exactly when full_setup failed for a configured
\* tunnel of the store, and 0 otherwise, whatever install_template and the
\* forward start commands did; with no tunnel stored it returns 0.
C1_ApplyStatus ==
    Applied =>
      /\ ret.code \in {0, 1}
      /\ ret.code = 1 <=>
           \E t \in SeqToSet(store) : config[t].configured /\ SetupFailed(t, Len(log))
      /\ store = <<>> => ret.code = 0

\* An apply that returned 0 although a template write and a forward start failed
C1_Witness ==
    /\ Applied
    /\ ret.code = 0
    /\ \E i, j \in 1..Len(log) :
         /\ log[i].cmd = "write_template" /\ ~log[i].ok
         /\ log[j].cmd = "start" /\ ~log[j].ok

\* C2: in the apply flow every forward call or command for a tunnel comes
\* after that tunnel's full_setup succeeded and only when the tunnel has
\* registered ports, and start_all_forwards comes after install_template.
C2_ForwardsAfterSetup ==
    Applied =>
      \A i \in 1..Len(log) :
        LET e == log[i]
        IN  /\ IsForward(e) =>
                 /\ config[e.t].forwarded_ports /= <<>>
                 /\ SetupSucceeded(e.t, i - 1)
                 /\ ~SetupFailed(e.t, Len(log))
            /\ IsCall(e, "start_all_forwards", e.t) =>
                 \E j \in 1..(i - 1) : IsCall(log[j], "install_template", e.t)

\* An apply that installed the template and started a forward of a tunnel
C2_Witness ==
    /\ Applied
    /\ \E i, j \in 1..Len(log) :
         /\ i < j
         /\ log[i].cmd = "write_template"
         /\ log[j].cmd = "start" /\ log[j].t = log[i].t

Stopped == op.name = "handle_stop_tunnel" /\ op.confirm

RegisteredPorts(t) == SeqToSet(config[t].forwarded_ports)

\* The place of the first tunnel teardown entry in the log (0: none)
FirstTeardown ==
    LET at == {i \in 1..Len(log) : log[i].cmd \in {"full_teardown", "tunnel_delete"}}
    IN  IF at = {} THEN 0 ELSE CHOOSE i \in at : \A j \in at : i <= j

C4_StopBeforeEveryTeardown ==
    [][ \A i \in 1..Len(log') :
          (log'[i].kind = "call" /\ log'[i].cmd = "full_teardown"
             /\ config[log'[i].t].forwarded_ports /= <<>>)
          => \E j \in 1..(i - 1) : IsCall(log'[j], "stop_all_forwards", log'[i].t) ]_vars

\* C5: no unit of a registered port of a stored tunnel is active while that
\* tunnel does not exist on the host.
C5_NoForwardWithoutTunnel ==
    \A t \in SeqToSet(store) : \A p \in RegisteredPorts(t) :
      p \in active => t \in tunnels

Created == op.name = "create_forward"

\* C6 as claimed: after create_forward(p) returned failure, p is not in the
\* forwarded-port set, whatever the set was before.
C6_FailedCreateAbsent ==
    (Created /\ ~ret.ok) => ~InSeq(op.p, config[op.t].forwarded_ports)

\* C6 as amended: after create_forward(p) returned failure, p is not in the
\* forwarded-port set unless it was registered before the call.
C6_FailedCreateNotRegistered ==
    [][ (op'.name = "create_forward" /\ ~ret'.ok
           /\ ~InSeq(op'.p, config[op'.t].forwarded_ports))
        => ~InSeq(op'.p, config'[op'.t].forwarded_ports) ]_vars

\* A create_forward of an unregistered port that failed at its enable command
C6_Witness ==
    /\ Created /\ ~ret.ok
    /\ ~InSeq(op.p, config[op.t].forwarded_ports)
    /\ \E i \in 1..Len(log) : log[i].cmd = "enable --now" /\ ~log[i].ok

\* C7: after create_forward(p) returned success, p is in the forwarded-port
\* set exactly once, and if p was registered already the set is as before.
C7_CreatedOnce ==
    [][ (op'.name = "create_forward" /\ ret'.ok)
        => /\ Count(op'.p, config'[op'.t].forwarded_ports) = 1
           /\ InSeq(op'.p, config[op'.t].forwarded_ports)
                => config'[op'.t].forwarded_ports = config[op'.t].forwarded_ports ]_vars

\* A successful create_forward of a port that was registered before it (a
\* newly registered port would be the last of the list)
C7_Witness ==
    /\ Created /\ ret.ok
    /\ InSeq(op.p, config[op.t].forwarded_ports)
    /\ config[op.t].forwarded_ports[Len(config[op.t].forwarded_ports)] /= op.p

\* C8: with no remote-forward target, install_template returns (false,
\* "Remote forward IP not configured"), issues no host command and neither
\* writes nor changes the template file.
C8_InstallUnconfigured ==
    [][ (op'.name = "install_template" /\ config[op'.t].remote_forward_ip = NoIP)
        => /\ ~ret'.ok
           /\ ret'.msg = Msg("Remote forward IP not configured", 0, "")
           /\ \A i \in 1..Len(log') : log'[i].kind \notin {"host", "file"}
           /\ template' = template ]_vars

\* An install_template that ran with no target configured
C8_Witness ==
    /\ op.name = "install_template"
    /\ config[op.t].remote_forward_ip = NoIP
    /\ ~ret.ok

\* The host commands of the log, in order
HostCommands == SelectSeq(log, LAMBDA e : e.kind = "host")

\* C9: remove_forward(p) issues the stop command and then the disable command
\* for p's unit, whatever the stop command's outcome, returns success, and
\* leaves p out of the forwarded-port set.
C9_RemoveAlways ==
    op.name = "remove_forward" =>
      /\ ret.ok
      /\ Len(HostCommands) = 2
      /\ HostCommands[1].cmd = "stop" /\ HostCommands[1].p = op.p
      /\ HostCommands[2].cmd = "disable" /\ HostCommands[2].p = op.p
      /\ ~InSeq(op.p, config[op.t].forwarded_ports)

\* A remove_forward whose stop command failed
C9_Witness ==
    /\ op.name = "remove_forward"
    /\ \E i \in 1..Len(log) : log[i].cmd = "stop" /\ ~log[i].ok
    /\ ret.ok

\* The ports of the pieces that parse as an integer in 1..65535, in order
RECURSIVE ValidPorts(_)
ValidPorts(raw) ==
    IF raw = <<>> THEN <<>>
    ELSE (IF ParsesAsInt(Head(raw)) /\ int(Head(raw)) >= 1 /\ int(Head(raw)) <= PortLimit
          THEN <<int(Head(raw))>> ELSE <<>>) \o ValidPorts(Tail(raw))

\* The ports create_forward was called with, in order
CreateCalls ==
    LET calls == SelectSeq(log, LAMBDA e : e.kind = "call" /\ e.cmd = "create_forward")
    IN  [i \in 1..Len(calls) |-> calls[i].p]

\* C10: add_multiple_forwards calls create_forward once for every piece that
\* parses as an integer in 1..65535, in input order, whatever the other
\* pieces are and whatever happens to any of the calls.
C10_EveryValidTokenAttempted ==
    op.name = "add_multiple_forwards" => CreateCalls = ValidPorts(op.ports_str)

\* A list whose first piece is malformed and whose second is a port, attempted
C10_Witness ==
    /\ op.name = "add_multiple_forwards"
    /\ Len(op.ports_str) = 2
    /\ ~ParsesAsInt(op.ports_str[1])
    /\ CreateCalls = <<443>>

Batched == op.name \in {"add_multiple_forwards", "remove_multiple_forwards"}

\* The report line names the token's port, or flags the token as invalid
NamesToken(line, tok) ==
    IF ParsesAsInt(tok)
    THEN /\ line.label = "Port" /\ line.port = int(tok)
         /\ (op.name = "add_multiple_forwards" /\ (int(tok) < 1 \/ int(tok) > PortLimit))
              => line.msg.text = "Invalid port number"
    ELSE line.label = "quoted" /\ line.tok = strip(tok) /\ line.msg.text = "Invalid port number"

\* C11 as claimed: the batch operations return outer success and their report
\* has one line per piece between the commas of the input, in input order,
\* each naming the piece's port or flagging the piece as invalid.
C11_OneLinePerToken ==
    Batched =>
      /\ ret.ok
      /\ Len(ret.lines) = Len(op.ports_str)
      /\ \A i \in 1..Len(op.ports_str) : NamesToken(ret.lines[i], op.ports_str[i])

\* The pieces that are more than white space
NonBlank(raw) == SelectSeq(raw, LAMBDA tok : strip(tok) /= <<>>)

\* C11 as amended: the batch operations return outer success and their report
\* has one line per piece that is not blank, in input order, each naming the
\* piece's port or flagging the piece as invalid; a blank piece gets no line.
C11_OneLinePerNonBlankToken ==
    Batched =>
      /\ ret.ok
      /\ Len(ret.lines) = Len(NonBlank(op.ports_str))
      /\ \A i \in 1..Len(ret.lines) : NamesToken(ret.lines[i], NonBlank(op.ports_str)[i])

\* A batch over a blank piece and a malformed one: one line, for the latter
C11_Witness ==
    /\ Batched
    /\ Len(op.ports_str) = 2
    /\ strip(op.ports_str[1]) = <<>>
    /\ Len(ret.lines) = 1
    /\ ret.lines[1].label = "quoted"

\* C12: under the batch operations every registered port stays an integer in
\* 1..65535 that is registered once, and add_multiple_forwards issues a host
\* command or file write only for a piece that parses as a port in 1..65535.
C12_PortsStayValid ==
    /\ \A t \in SeqToSet(store) :
         \A i \in 1..Len(config[t].forwarded_ports) :
           /\ config[t].forwarded_ports[i] \in 1..PortLimit
           /\ Count(config[t].forwarded_ports[i], config[t].forwarded_ports) = 1
    /\ op.name = "add_multiple_forwards" =>
         \A i \in 1..Len(log) :
           log[i].kind \in {"host", "file"} =>
             /\ ValidPorts(op.ports_str) /= <<>>
             /\ \/ log[i].cmd \in {"write_template", "daemon-reload"}
                \/ InSeq(log[i].p, ValidPorts(op.ports_str))

\* A batch add over a piece beyond 65535 and a port, the port enabled
C12_Witness ==
    /\ op.name = "add_multiple_forwards"
    /\ Len(op.ports_str) = 2
    /\ op.ports_str[1] = Decimal(PortLimit + 1)
    /\ HostCommands /= <<>>
    /\ \A i \in 1..Len(HostCommands) : HostCommands[i].p \in {0, 80}
    /\ InSeq(80, config[op.t].forwarded_ports)

BulkVerb ==
    [restart_all_forwards |-> "restart", stop_all_forwards |-> "stop", start_all_forwards |-> "start"]

Bulk == op.name \in DOMAIN BulkVerb

\* C13: restart_all_forwards, stop_all_forwards and start_all_forwards return
\* overall success whatever the commands did; with ports registered they issue
\* one command of their verb per registered port, in order, and report one
\* line per port; with none they issue no command and report the single line
\* "No port forwards configured".
C13_BulkOnePerPort ==
    Bulk =>
      LET ports == config[op.t].forwarded_ports
      IN  /\ ret.ok
          /\ IF ports = <<>>
             THEN /\ HostCommands = <<>>
                  /\ Len(ret.lines) = 1
                  /\ ret.lines[1].msg.text = "No port forwards configured"
             ELSE /\ Len(HostCommands) = Len(ports)
                  /\ Len(ret.lines) = Len(ports)
                  /\ \A i \in 1..Len(ports) :
                       /\ HostCommands[i].cmd = BulkVerb[op.name]
                       /\ HostCommands[i].p = ports[i]
                       /\ ret.lines[i].label = "Port"
                       /\ ret.lines[i].port = ports[i]

\* A bulk operation over two ports whose first command failed
C13_Witness ==
    /\ Bulk
    /\ Len(config[op.t].forwarded_ports) = 2
    /\ Len(HostCommands) = 2
    /\ ~HostCommands[1].ok
    /\ HostCommands[2].ok
    /\ ret.ok

Listed == op.name = "list_forwards"

\* The queries of one kind that the log holds for the unit of a port
QueriesOf(verb, p) == SelectSeq(log, LAMBDA e : e.kind = "host" /\ e.cmd = verb /\ e.p = p)

\* C14: list_forwards returns one record per registered port, in order, and
\* none else, each after one is-active and one is-enabled query of the port's
\* unit; a failed is-active query makes the record's status "inactive" and a
\* failed is-enabled query makes its enablement "disabled", and the records of
\* the other ports are produced all the same.
C14_ListDegrades ==
    Listed =>
      LET ports == config[op.t].forwarded_ports
      IN  /\ Len(ret.lines) = Len(ports)
          /\ \A i \in 1..Len(ports) :
               /\ ret.lines[i].port = ports[i]
               /\ Len(QueriesOf("is-active", ports[i])) = 1
               /\ Len(QueriesOf("is-enabled", ports[i])) = 1
               /\ ~QueriesOf("is-active", ports[i])[1].ok => ret.lines[i].status = "inactive"
               /\ ~QueriesOf("is-enabled", ports[i])[1].ok => ret.lines[i].enabled = "disabled"

\* A listing of two ports: both queries of the first failed, the second port
\* is reported active and enabled
C14_Witness ==
    /\ Listed
    /\ Len(ret.lines) = 2
    /\ ret.lines[1].status = "inactive" /\ ret.lines[1].enabled = "disabled"
    /\ ~QueriesOf("is-enabled", ret.lines[1].port)[1].ok
    /\ ret.lines[2].status /= "inactive" /\ ret.lines[2].enabled /= "disabled"

\* C15: in the apply flow a tunnel that is not configured gets a note and
\* nothing else (no call, host command or file write is issued for it), it
\* does not make the exit status 1, and every configured tunnel of the store
\* is still set up.
C15_UnconfiguredSkipped ==
    Applied =>
      /\ \A t \in SeqToSet(store) :
           IF config[t].configured
           THEN \E i \in 1..Len(log) : IsCall(log[i], "full_setup", t)
           ELSE /\ \A i \in 1..Len(log) : log[i].t = t => log[i].kind = "print"
                /\ \E i \in 1..Len(log) : log[i].t = t
      /\ (\A t \in SeqToSet(store) : config[t].configured => SetupSucceeded(t, Len(log)))
           => ret.code = 0

\* An apply over an unconfigured first tunnel and a second one that it set up
C15_Witness ==
    /\ Applied
    /\ ~config[StoreOrder[1]].configured
    /\ config[StoreOrder[2]].configured
    /\ SetupSucceeded(StoreOrder[2], Len(log))
    /\ ret.code = 0

\* The operation that has just run is one of the registering and unregistering
\* operations (create_forward, remove_forward, their batch wrappers, also as
\* reached from the forwards menu) or update_template.
Mutating(o) ==
    \/ o.name \in {"create_forward", "remove_forward", "update_template",
                    "add_multiple_forwards", "remove_multiple_forwards"}
    \/ o.name = "handle_forwards_menu" /\ o.arg \in {"1", "2"}

Readers ==
    {"list_forwards", "get_forward_status", "restart_forward", "restart_all_forwards",
     "stop_all_forwards", "start_all_forwards", "install_template",
     "handle_status", "cmd_apply", "handle_stop_tunnel"}

SameIntent(t) ==
    /\ config'[t].forwarded_ports = config[t].forwarded_ports
    /\ config'[t].remote_forward_ip = config[t].remote_forward_ip

C17_RunCommandTotal ==
    op.name = "run_command" =>
      /\ ret.msg.detail /= "raised"
      /\ ret.ok <=> op.arg = "exit0"
      /\ op.arg = "timeout" => ret.msg.text = "TimeoutExpired"
      /\ op.arg = "oserror" => ret.msg.text = "OSError"
      /\ Len(HostCommands) = 1

\* A run_command whose command ran into the timeout
C17_Witness ==
    /\ op.name = "run_command"
    /\ op.arg = "timeout"
    /\ ~ret.ok
    /\ ret.msg.text = "TimeoutExpired"

Single == op.name \in {"install_template", "create_forward", "restart_forward", "install_socat"}

\* C18: when a host command issued by install_template, create_forward,
\* restart_forward or install_socat fails, the operation returns failure and
\* its message carries the output of the failed command.
C18_FailurePropagates ==
    (Single /\ \E i \in 1..Len(log) : log[i].kind = "host" /\ ~log[i].ok)
      => /\ ~ret.ok
         /\ ret.msg.detail \in {"stderr", "TimeoutExpired", "OSError"}

\* C19: an operation of the forwards menu or the stop flow on one stored
\* tunnel changes neither the template used by the units of another stored
\* tunnel's registered ports nor whether any of those units is active.
C19_TunnelsIndependent ==
    [][ \A a, b \in SeqToSet(store) :
          (a /= b /\ op'.t = a /\ op'.name \in {"handle_forwards_menu", "handle_stop_tunnel"}
             /\ RegisteredPorts(b) /= {})
          => /\ template' = template
             /\ \A p \in RegisteredPorts(b) : (p \in active') <=> (p \in active) ]_vars

\* The writes of the template file that the log holds
Writes == SelectSeq(log, LAMBDA e : e.kind = "file" /\ e.cmd = "write_template")

\* C20: whatever the template file held, after an operation whose write of the
\* template succeeded the file holds the target of that operation's tunnel
\* and nothing else, and an operation that wrote nothing leaves the file as
\* it was: the file always holds the target of the latest successful write.
C20_LastWriterWins ==
    [][ LET writes == SelectSeq(log', LAMBDA e : e.kind = "file" /\ e.cmd = "write_template")
        IN  /\ (\E i \in 1..Len(writes) : writes[i].ok)
                 => /\ template' = config'[op'.t].remote_forward_ip
                    /\ template' \in IPs
            /\ writes = <<>> => template' = template ]_vars

\* An update_template to a new target whose write succeeded
C20_Witness ==
    /\ op.name = "update_template"
    /\ op.ip = "10.0.0.3"
    /\ Len(Writes) = 1 /\ Writes[1].ok
    /\ template = "10.0.0.3"

\* C21: update_template with a target sets the stored remote-forward target
\* to it, and without one leaves the stored target as it is; either way it
\* then runs install_template once and returns its result (success exactly
\* when the template was written, the refusal when no target is stored), and
\* the stored target stays as set when the write fails.
C21_UpdateThenInstall ==
    [][ op'.name = "update_template" =>
          LET t == op'.t
              installs == SelectSeq(log', LAMBDA e : IsCall(e, "install_template", t))
              writes == SelectSeq(log', LAMBDA e : e.kind = "file" /\ e.cmd = "write_template")
          IN  /\ config'[t].remote_forward_ip =
                   (IF op'.ip /= NoIP THEN op'.ip ELSE config[t].remote_forward_ip)
              /\ config'[t].forwarded_ports = config[t].forwarded_ports
              /\ Len(installs) = 1
              /\ ret'.ok <=> (writes /= <<>> /\ writes[1].ok)
              /\ ret'.ok => ret'.msg.text = "Template installed at"
              /\ (op'.ip = NoIP /\ config[t].remote_forward_ip = NoIP)
                   => ret'.msg.text = "Remote forward IP not configured"
              /\ (writes /= <<>> /\ ~writes[1].ok)
                   => ret'.msg.text = "Failed to install template:" ]_vars

\* An update_template to a new target whose write of the template failed: the
\* stored target is the new one, the file is not
C21_Witness ==
    /\ op.name = "update_template"
    /\ op.ip = "10.0.0.3"
    /\ ~ret.ok
    /\ Len(Writes) = 1 /\ ~Writes[1].ok
    /\ config[op.t].remote_forward_ip = "10.0.0.3"
    /\ template /= "10.0.0.3"

\* The commands of the setup steps that the log holds, in order
SetupCommands == SelectSeq(log, LAMBDA e : e.kind = "host" /\ e.cmd \in SeqToSet(SetupSteps))

\* C22: full_setup issues tunnel-create, session-create and interface-up in
\* that order, each only after the one before it succeeded; a failed step is
\* the last one issued and full_setup returns failure with that step's
\* detail; when all three succeed it returns success.
C22_SetupStopsAtFirstFailure ==
    op.name = "full_setup" =>
      LET n == Len(SetupCommands)
      IN  /\ n \in 1..Len(SetupSteps)
          /\ \A i \in 1..n : SetupCommands[i].cmd = SetupSteps[i]
          /\ \A i \in 1..(n - 1) : SetupCommands[i].ok
          /\ ret.ok <=> (n = Len(SetupSteps) /\ SetupCommands[n].ok)
          /\ ~ret.ok => (~SetupCommands[n].ok /\ ret.msg.detail = SetupCommands[n].cmd)

\* A full_setup whose session-create step failed: interface-up was not issued
C22_Witness ==
    /\ op.name = "full_setup"
    /\ Len(SetupCommands) = 2
    /\ SetupCommands[2].cmd = "session_create" /\ ~SetupCommands[2].ok
    /\ ~ret.ok
    /\ ret.msg.detail = "session_create"

AllOk(l) == \A i \in 1..Len(l) : l[i].ok

C24_DeleteAfterTeardown ==
    [][ /\ op'.name = "handle_delete_tunnel" =>
             IF op'.t /= NoSelection /\ op'.confirm
             THEN /\ \E i, j, k \in 1..Len(log') :
                       /\ i < k /\ k < j
                       /\ IsCall(log'[i], "full_teardown", op'.t)
                       /\ IsHost(log'[k], "tunnel_delete", op'.t)
                       /\ IsCall(log'[j], "delete_tunnel", op'.t)
                  /\ ~InSeq(op'.t, store')
                  /\ store' = Without(op'.t, store)
             ELSE /\ log' = <<>>
                  /\ UNCHANGED <<store, config, template, active, tunnels>>
        /\ store' /= store => (op'.name = "handle_delete_tunnel" /\ op'.confirm) ]_vars

\* A confirmed delete of one of two stored tunnels whose teardown failed
C24_Witness ==
    /\ op.name = "handle_delete_tunnel"
    /\ op.confirm
    /\ store = <<StoreOrder[1]>>
    /\ op.t = StoreOrder[2]
    /\ \E i \in 1..Len(log) : IsReturn(log[i], "full_teardown", op.t) /\ ~log[i].ok

\* C25: a create_forward that returned failure leaves the forwarded-port set
\* as it was before the call, whether the lazy template installation or the
\* enable command failed; when the installation failed, no enable command was
\* issued for the port.
C25_FailedCreateChangesNothing ==
    [][ (op'.name = "create_forward" /\ ~ret'.ok)
        => /\ \A t \in Names : config'[t].forwarded_ports = config[t].forwarded_ports
           /\ ret'.msg.text \in {"Failed to install template:", "Failed to create forward for port"}
           /\ ret'.msg.text = "Failed to install template:"
                => \A i \in 1..Len(log') : log'[i].cmd /= "enable --now" ]_vars

\* A create_forward of a registered port that failed at the installation of
\* the template
C25_Witness ==
    /\ Created /\ ~ret.ok
    /\ ret.msg.text = "Failed to install template:"
    /\ InSeq(op.p, config[op.t].forwarded_ports)
    /\ Len(config[op.t].forwarded_ports) = 2

\* C26: create_forward calls install_template exactly when the template file
\* does not exist at the call; with the file present it writes nothing, leaves
\* the file as it is and issues the enable command for the port as its only
\* command, also when no remote-forward target is set.
C26_InstallOnlyIfAbsent ==
    [][ op'.name = "create_forward" =>
          LET installs == SelectSeq(log', LAMBDA e : IsCall(e, "install_template", op'.t))
              issued == SelectSeq(log', LAMBDA e : e.kind \in {"host", "file"})
          IN  /\ Len(installs) = (IF template = Absent THEN 1 ELSE 0)
              /\ template /= Absent
                   => /\ template' = template
                      /\ Len(issued) = 1
                      /\ IsHost(issued[1], "enable --now", op'.t)
                      /\ issued[1].p = op'.p ]_vars

\* A create_forward that succeeded on an installed template with no target set
C26_Witness ==
    /\ Created /\ ret.ok
    /\ config[op.t].remote_forward_ip = NoIP
    /\ template \in IPs
    /\ \A i \in 1..Len(log) : log[i].cmd /= "install_template"

\* The tunnels full_setup was called for, in the order of the calls
SetupCalls ==
    LET calls == SelectSeq(log, LAMBDA e : e.kind = "call" /\ e.cmd = "full_setup")
    IN  [i \in 1..Len(calls) |-> calls[i].t]

\* C27: one run of cmd_apply calls full_setup once for every configured
\* tunnel of the store, in store order, whatever full_setup or the forward
\* steps of an earlier tunnel did.
C27_EveryTunnelSetUp ==
    Applied => SetupCalls = SelectSeq(store, LAMBDA t : config[t].configured)

\* A run whose first tunnel failed to set up and whose second was set up
C27_Witness ==
    /\ Applied
    /\ SetupCalls = StoreOrder
    /\ SetupFailed(StoreOrder[1], Len(log))
    /\ SetupSucceeded(StoreOrder[2], Len(log))
    /\ ret.code = 1

\* C28: in the apply flow every call of install_template for a tunnel is
\* followed by a call of start_all_forwards for it and by a start command for
\* each of its registered ports, whatever install_template returned.
C28_StartAfterInstall ==
    Applied =>
      \A i \in 1..Len(log) :
        log[i].kind = "call" /\ log[i].cmd = "install_template" =>
          \E j \in (i + 1)..Len(log) :
            /\ IsCall(log[j], "start_all_forwards", log[i].t)
            /\ \A p \in RegisteredPorts(log[i].t) :
                 \E k \in (j + 1)..Len(log) : IsHost(log[k], "start", log[i].t) /\ log[k].p = p

\* A run in which the write of the template failed and the unit of the same
\* tunnel's port was started all the same
C28_Witness ==
    /\ Applied
    /\ \E i, j \in 1..Len(log) :
         /\ i < j
         /\ log[i].cmd = "write_template" /\ ~log[i].ok
         /\ IsHost(log[j], "start", log[i].t) /\ log[j].ok

\* C29: in the stop flow, once the operator has confirmed, full_teardown is
\* called and its command issued whatever the stop commands of the forwards
\* did, and the flow reports "Tunnel stopped successfully" exactly when
\* full_teardown returned success; when the operator declines, nothing is
\* issued.
C29_TeardownAlways ==
    op.name = "handle_stop_tunnel" =>
      IF op.confirm
      THEN \E i, k, j \in 1..Len(log) :
             /\ i < k /\ k < j
             /\ IsCall(log[i], "full_teardown", op.t)
             /\ IsHost(log[k], "tunnel_delete", op.t)
             /\ IsReturn(log[j], "full_teardown", op.t)
             /\ ret.ok <=> log[j].ok
             /\ ret.msg.text = (IF log[j].ok THEN "Tunnel stopped successfully"
                                              ELSE "Tunnel stop failed")
      ELSE log = <<>>

\* A stop flow whose stop command failed and whose teardown succeeded
C29_Witness ==
    /\ Stopped
    /\ \E i \in 1..Len(log) : IsHost(log[i], "stop", op.t) /\ ~log[i].ok
    /\ ret.ok
    /\ ret.msg.text = "Tunnel stopped successfully"

\* The place of the first call of a method in a log (0: none)
FirstCall(l, name, t) ==
    LET at == {i \in 1..Len(l) : IsCall(l[i], name, t)}
    IN  IF at = {} THEN 0 ELSE CHOOSE i \in at : \A j \in at : i <= j

\* C30: the start flow calls full_setup only for a configured tunnel; for a
\* tunnel that exists on the host it does so only when the operator confirmed
\* and after calling full_teardown, and for one that does not exist it calls
\* no teardown; once past these checks it calls full_setup, also when the
\* teardown returned failure.
C30_StartGuards ==
    [][ op'.name = "handle_start_tunnel" =>
          LET t == op'.t
              setup == FirstCall(log', "full_setup", t)
              teardown == FirstCall(log', "full_teardown", t)
          IN  /\ setup > 0 <=> (config[t].configured /\ (t \in tunnels => op'.confirm))
              /\ setup = 0 => log' = <<>>
              /\ setup > 0 =>
                   IF t \in tunnels THEN teardown > 0 /\ teardown < setup
                                     ELSE teardown = 0 ]_vars

\* A start flow that recreated an existing tunnel after a failed teardown
C30_Witness ==
    /\ op.name = "handle_start_tunnel"
    /\ op.confirm
    /\ \E i, j \in 1..Len(log) :
         /\ i < j
         /\ IsReturn(log[i], "full_teardown", op.t) /\ ~log[i].ok
         /\ IsCall(log[j], "full_setup", op.t)

\* What a listing returned: the dicts of list_forwards
ListedForwards == IF op.name \in {"list_forwards", "handle_status"} THEN ret.lines ELSE <<>>

\* C31: whenever list_forwards has returned, by itself or inside the status
\* screen, while the template file holds a rendered template, the remote
\* endpoint it reports for a registered port whose unit is running is
\* <target rendered in the template>:<port>.
C31_ListedRemoteIsTemplate ==
    template \in IPs =>
      \A i \in 1..Len(ListedForwards) :
        LET f == ListedForwards[i]
        IN  f.port \in active => f.remote = <<template, f.port>>

\* The ports of the start commands that a stretch of the log holds for t
StartedPorts(l, t) ==
    LET starts == SelectSeq(l, LAMBDA e : IsHost(e, "start", t))
    IN  [i \in 1..Len(starts) |-> starts[i].p]

\* C32: the stop flow leaves the registered ports of its tunnel as they were,
\* declined or confirmed and whatever the stops and the teardown returned; and
\* a cmd_apply run straight after it in which full_setup of that tunnel
\* succeeded issues a start command for each of these ports, once and in
\* their order, and for no other port.
C32_StopKeepsPorts ==
    [][ /\ op'.name = "handle_stop_tunnel" =>
             config'[op'.t].forwarded_ports = config[op'.t].forwarded_ports
        /\ op'.name = "cmd_apply_after_stop" =>
             LET t == op.t
                 run == SubSeq(log', Len(log) + 1, Len(log'))
             IN  (\E i \in 1..Len(run) : IsReturn(run[i], "full_setup", t) /\ run[i].ok)
                   => StartedPorts(run, t) = config[t].forwarded_ports ]_vars

\* A confirmed stop that stopped two ports, then an apply that set the tunnel
\* up again and issued a start for both
C32_Witness ==
    /\ op.name = "cmd_apply_after_stop"
    /\ op.confirm
    /\ \E i, j \in 1..Len(log) :
         /\ i < j
         /\ IsReturn(log[i], "full_teardown", op.t)
         /\ IsReturn(log[j], "full_setup", op.t) /\ log[j].ok
         /\ Len(StartedPorts(SubSeq(log, 1, i), op.t)) = 0
         /\ Len(SelectSeq(SubSeq(log, 1, i), LAMBDA e : IsHost(e, "stop", op.t))) = 2
         /\ Len(StartedPorts(SubSeq(log, j, Len(log)), op.t)) = 2

====
